---- MODULE Spec2Model ----
(***************************************************************************)
(* Model of src/server.py: an asyncio websocket chat relay.                *)
(*                                                                         *)
(* One coroutine `handler` runs per accepted connection; all handlers      *)
(* share the module-level dict `clients`.  Coroutines are scheduled        *)
(* cooperatively, so a handler runs atomically from one suspension point   *)
(* to the next.  The suspension points are the reads of the next inbound   *)
(* frame (`async for message in websocket`) and the                        *)
(* `await asyncio.gather(...)` at the end of `broadcast`.  Each action     *)
(* below is one such atomic stretch of code.                               *)
(*                                                                         *)
(* Before a connection is accepted its opening HTTP request is handed to   *)
(* `health_check`, which main registers as process_request.                *)
(*                                                                         *)
(* A websocket is identified with the number of its connection.  The       *)
(* 'joined' and 'time' timestamps are not modelled (no decision of the     *)
(* code reads them).                                                       *)
(***************************************************************************)
EXTENDS Integers, Sequences, FiniteSets, TLC

\* ---------------------------------------------------------------- bounds
NumConns == 2
MaxChat == 2

Conns == 1..NumConns

\* ---------------------------------------------------------------- values
\* Python's None; also what data.get(k) yields for a missing key.
None == "None"

Ids == {"u1", "u2"}
Names == {"A"}
Texts == {"hi"}

\* Inbound frames.  kind "badjson": json.loads raises JSONDecodeError;
\* kind "nonobject": valid JSON that is not an object (data['type'] raises
\* TypeError); kind "object": a JSON object whose missing keys are None.
Frame(kind, type, userId, uname, text) ==
    [kind |-> kind, type |-> type, userId |-> userId, username |-> uname, text |-> text]

Frames ==
    {Frame("badjson", None, None, None, None),
     Frame("nonobject", None, None, None, None),
     Frame("object", None, "u1", "A", "hi"),
     Frame("object", "other", "u1", "A", "hi")}
    \cup
    {Frame("object", "join", i, n, None) : i \in Ids, n \in Names \cup {None}}
    \cup
    {Frame("object", "join", i, n, None) : i \in {"", None}, n \in Names}
    \cup
    {Frame("object", "message", i, n, t) :
        i \in {"u1", None}, n \in Names \cup {None}, t \in Texts \cup {None}}

VARIABLES
    pc,         \* position of each connection's handler
    open,       \* whether the connection's websocket is still open
    clients,    \* the registry: the dict `clients`, a set of entries
    client_id,  \* handler local client_id
    username,   \* handler local username
    issued,     \* per handler: the broadcast calls it made, in order
    tasks,      \* the send coroutines of the gathers being awaited, with results
    outbox,     \* outbox[w][c]: the chat calls of handler c written to websocket w, in order
    user,       \* handler local `user` of the finally block
    removed,    \* the entries deleted by the finally blocks: by which handler,
                \* whose websocket
    lastIn,     \* <<c, label>>: the last step was handler c reading a frame of that
                \* label; NoFrame after any other step
    nchat,      \* number of chat broadcasts so far (bounded by MaxChat)
    response    \* the last answer of process_request to an opening request:
                \* the path asked for and the status returned; NoResponse at first

vars == <<pc, open, clients, client_id, username, issued, tasks, outbox,
          user, removed, lastIn, nchat, response>>

\* ------------------------------------------------------- python helpers

\* Truthiness of a str-or-None value (`if client_id`).
Truthy(v) == v # None /\ v # ""

\* `k in clients`
InClients(reg, k) == \E e \in reg : e.id = k

\* `clients[k]`
Lookup(reg, k) == CHOOSE e \in reg : e.id = k

\* Variant: clients.setdefault(k, entry), which keeps an entry already there.
DictSetDefault(reg, entry) ==
    IF InClients(reg, entry.id) THEN reg ELSE reg \cup {entry}

\* Variant: the registry as a list of entries, appended to.
DictSetAppend(reg, entry) == reg \cup {entry}

\* Variant: the dict is rebuilt around the new entry, losing the others.
DictSetFresh(reg, entry) == {entry}

\* `clients[k] = entry`: a dict holds one value per key.
DictSet(reg, entry) == {e \in reg : e.id # entry.id} \cup {entry}

\* Variant: the entry is looked up but not deleted.
DictDelNoop(reg, k) == reg

\* `del clients[k]`
DictDel(reg, k) == {e \in reg : e.id # k}

\* data.get('username', 'Unknown')
GetUsername(f) == IF f.username = None THEN "Unknown" ELSE f.username

\* data['type'] raises KeyError (no such key) or TypeError (not an object).
TypeRaises(f) == f.kind = "nonobject" \/ (f.kind = "object" /\ f.type = None)

\* The frame lacks one of the keys 'text', 'username', 'userId'.
LacksField(f) == f.text = None \/ f.username = None \/ f.userId = None

\* Variant: the fields are read with data.get(...), which never raises.
ChatFieldsNeverRaise(f) == FALSE

\* data['text'], data['username'], data['userId'] : KeyError when missing.
ChatFieldsRaise(f) == LacksField(f)

\* ------------------------------------------------------------ envelopes
\* Variant: the mapping lists only the sessions whose connection is open.
UsersDataOpen(reg) == {<<e.id, e.username>> : e \in {x \in reg : open[x.websocket]}}

\* users_data of broadcast_users: uid -> username for every entry.
UsersData(reg) == {<<e.id, e.username>> : e \in reg}

UsersEnv(reg) ==
    [type |-> "users", users |-> UsersData(reg), text |-> None,
     username |-> None, userId |-> None]

SystemEnv(what, name) ==
    [type |-> "system", users |-> {}, text |-> <<what, name>>,
     username |-> None, userId |-> None]

ChatEnv(f) ==
    [type |-> "message", users |-> {}, text |-> <<f.text>>,
     username |-> f.username, userId |-> f.userId]

\* ------------------------------------------------------------ broadcast

\* The (client_id, websocket) pairs in the registry when broadcast is called.
Recipients(reg) == {[id |-> e.id, to |-> e.websocket] : e \in reg}

\* The ids broadcast collects in `disconnected`: those whose
\* client['websocket'].send(message) raises when called.  send is a
\* coroutine function: calling it only creates the coroutine, and a closed
\* websocket raises only once the coroutine runs, inside the gather.
Disconnected(reg) == {}

\* The registry after broadcast's `for client_id in disconnected: del ...`.
Pruned(reg) == {e \in reg : e.id \notin Disconnected(reg)}

\* The entries for which broadcast puts a send coroutine into `tasks`.
Sends(reg) == {e \in reg : e.id \notin Disconnected(reg)}

\* Whether broadcast reaches the await of its gather: not when it returns
\* at `if not clients`, nor when `tasks` is empty.
Suspends(reg) == reg # {} /\ Sends(reg) # {}

\* The record of one broadcast call: `ret` is "returned" at once when there
\* is nothing to await, "pending" while the gather is awaited.
Call(env, reg) ==
    [env |-> env, rcpts |-> Recipients(reg),
     ret |-> IF Suspends(reg) THEN "pending" ELSE "returned"]

\* The send coroutines created by call number k of handler c.
Tasks(c, k, reg) ==
    {[by |-> c, seq |-> k, to |-> e.websocket, st |-> "pending"] : e \in Sends(reg)}

\* Variant: the sends are started but not awaited.
GatherDoneNoWait(c) == TRUE

\* Variant: asyncio.wait(tasks, return_when=FIRST_COMPLETED).
GatherDoneFirst(c) ==
    \E t \in tasks : t.by = c /\ t.st # "pending"

\* asyncio.gather(*tasks, return_exceptions=True): done when every send
\* has settled.
GatherDone(c) == \A t \in tasks : t.by = c => t.st # "pending"

\* The gather's result list is dropped when broadcast returns.
Forget(c) == {t \in tasks : t.by # c \/ t.st = "pending"}

\* Variant: asyncio.gather without return_exceptions raises the first
\* exception of a send to the caller.
GatherResultRaising(c, k) ==
    IF \E t \in tasks : t.by = c /\ t.seq = k /\ t.st = "failed"
    THEN "raised" ELSE "returned"

\* With return_exceptions=True the exceptions are results, never raised.
GatherResult(c, k) == "returned"

Returned(iss, c) ==
    [iss EXCEPT ![Len(iss)].ret = GatherResult(c, Len(iss))]

NoFrame == <<0, "none">>

\* The paths of the opening HTTP requests; main prints HealthPath as the
\* health check URL.
HealthPath == "/health"
Paths == {HealthPath, "/"}

NoResponse == [path |-> None, status |-> 0]

\* health_check(request): the same response whatever the request.
health_check(path) == [status |-> 200, body |-> "OK"]

TypeOK ==
    /\ pc \in [Conns -> {"idle", "await_join", "join_users", "join_system",
                         "active", "chat", "clean_users", "clean_system", "done"}]
    /\ open \in [Conns -> BOOLEAN]
    /\ \A e \in clients : e.websocket \in Conns
    /\ nchat \in 0..MaxChat

Init ==
    /\ pc = [c \in Conns |-> "idle"]
    /\ open = [c \in Conns |-> FALSE]
    /\ clients = {}
    /\ client_id = [c \in Conns |-> None]
    /\ username = [c \in Conns |-> None]
    /\ issued = [c \in Conns |-> <<>>]
    /\ tasks = {}
    /\ outbox = [w \in Conns |-> [c \in Conns |-> <<>>]]
    /\ user = [c \in Conns |-> None]
    /\ removed = {}
    /\ lastIn = NoFrame
    /\ nchat = 0
    /\ response = NoResponse

\* The label of a frame: "badjson", "nonobject", "notype", the frame's type,
\* or "message-" for a message frame that lacks one of its fields.
FrameLabel(f) ==
    IF f.kind # "object" THEN f.kind
    ELSE IF f.type = None THEN "notype"
    ELSE IF f.type = "message" /\ LacksField(f) THEN "message-"
    ELSE f.type

\* Variant: any typed frame of a known type counts as the join.
IsJoinAnyKnownType(f) == f.kind = "object" /\ f.type \in {"join", "message"}

\* data['type'] == 'join'
IsJoin(f) == f.kind = "object" /\ f.type = "join"

\* data['type'] == 'message'
IsMessage(f) == f.kind = "object" /\ f.type = "message"

\* The guard of the finally block: `if client_id and client_id in clients`.
CleanupNeeded(c) == Truthy(client_id[c]) /\ InClients(clients, client_id[c])

\* websockets.serve accepts a connection and starts handler(websocket).
\* Connections are numbered in the order they are accepted.
Accept(c) ==
    /\ pc[c] = "idle"
    /\ \A d \in Conns : d < c => pc[d] # "idle"
    /\ pc' = [pc EXCEPT ![c] = "await_join"]
    /\ open' = [open EXCEPT ![c] = TRUE]
    /\ lastIn' = NoFrame
    /\ UNCHANGED <<clients, client_id, username, issued, tasks, outbox, user, removed, nchat, response>>

\* The peer goes away (close frame, reset, ping timeout).
Close(c) ==
    /\ open[c]
    /\ open' = [open EXCEPT ![c] = FALSE]
    /\ lastIn' = NoFrame
    /\ UNCHANGED <<pc, clients, client_id, username, issued, tasks, outbox, user, removed, nchat, response>>

\* A frame that has no effect: the handler goes on to read the next one.
Drop(c, f) ==
    /\ lastIn' = <<c, FrameLabel(f)>>
    /\ UNCHANGED <<pc, open, clients, client_id, username, issued, tasks,
                   outbox, user, removed, nchat, response>>

\* The finally block of handler, up to its first suspension (or its end).
Finally(c) ==
    IF CleanupNeeded(c)
    THEN LET usr == Lookup(clients, client_id[c]).username
             reg == DictDel(clients, client_id[c])
             k == Len(issued[c]) + 1
         IN  /\ clients' = Pruned(reg)
             /\ user' = [user EXCEPT ![c] = usr]
             /\ removed' = removed \cup
                    {[by |-> c, ws |-> Lookup(clients, client_id[c]).websocket]}
             /\ IF Suspends(reg)
                THEN /\ issued' = [issued EXCEPT ![c] =
                            Append(@, Call(UsersEnv(reg), reg))]
                     /\ tasks' = tasks \cup Tasks(c, k, reg)
                     /\ pc' = [pc EXCEPT ![c] = "clean_users"]
                     /\ open' = open
                ELSE \* both broadcasts return without awaiting
                     /\ issued' = [issued EXCEPT ![c] =
                            Append(Append(@, Call(UsersEnv(reg), reg)),
                                   Call(SystemEnv("left", usr), reg))]
                     /\ tasks' = tasks
                     /\ pc' = [pc EXCEPT ![c] = "done"]
                     /\ open' = [open EXCEPT ![c] = FALSE]
    ELSE /\ pc' = [pc EXCEPT ![c] = "done"]
         /\ open' = [open EXCEPT ![c] = FALSE]
         /\ UNCHANGED <<clients, user, removed, issued, tasks>>

\* The join branch of the first loop: register, then broadcast_users().
Join(c, f) ==
    LET entry == [id |-> f.userId, websocket |-> c, username |-> GetUsername(f)]
        reg == DictSet(clients, entry)
        k == Len(issued[c]) + 1
    IN  /\ client_id' = [client_id EXCEPT ![c] = f.userId]
        /\ username' = [username EXCEPT ![c] = GetUsername(f)]
        /\ clients' = Pruned(reg)
        /\ issued' = [issued EXCEPT ![c] = Append(@, Call(UsersEnv(reg), reg))]
        /\ tasks' = tasks \cup Tasks(c, k, reg)
        /\ pc' = [pc EXCEPT ![c] = "join_users"]
        /\ lastIn' = <<c, FrameLabel(f)>>
        /\ UNCHANGED <<open, outbox, user, removed, nchat, response>>

\* One frame read by the first loop of handler (lines 23-49).
JoinLoopRecv(c, f) ==
    /\ pc[c] = "await_join"
    /\ open[c]
    /\ IF f.kind = "badjson" THEN Drop(c, f)
       ELSE IF TypeRaises(f)
       THEN \* not a JSONDecodeError: caught by the outer except, then finally
            /\ Finally(c)
            /\ lastIn' = <<c, FrameLabel(f)>>
            /\ UNCHANGED <<client_id, username, outbox, nchat, response>>
       ELSE IF IsJoin(f) THEN Join(c, f)
       ELSE Drop(c, f)

\* broadcast_users() of the join has returned: broadcast_system(), break.
JoinUsersDone(c) ==
    /\ pc[c] = "join_users"
    /\ GatherDone(c)
    /\ LET iss == Returned(issued[c], c)
       IN  /\ issued' = [issued EXCEPT ![c] =
                    Append(iss, Call(SystemEnv("joined", username[c]), clients))]
           /\ tasks' = Forget(c) \cup Tasks(c, Len(iss) + 1, clients)
    /\ pc' = [pc EXCEPT ![c] = IF Suspends(clients) THEN "join_system" ELSE "active"]
    /\ lastIn' = NoFrame
    /\ clients' = Pruned(clients)
    /\ UNCHANGED <<open, client_id, username, outbox, user, removed, nchat, response>>

\* broadcast_system() of the join has returned: break, on to the second loop.
JoinSystemDone(c) ==
    /\ pc[c] = "join_system"
    /\ GatherDone(c)
    /\ issued' = [issued EXCEPT ![c] = Returned(@, c)]
    /\ tasks' = Forget(c)
    /\ pc' = [pc EXCEPT ![c] = "active"]
    /\ lastIn' = NoFrame
    /\ UNCHANGED <<open, clients, client_id, username, outbox, user, removed, nchat, response>>

\* Variant: the envelope carries the id and name the handler joined with.
ChatStamped(c, f) ==
    LET env == [ChatEnv(f) EXCEPT !.userId = client_id[c], !.username = username[c]]
    IN  /\ nchat < MaxChat
        /\ nchat' = nchat + 1
        /\ issued' = [issued EXCEPT ![c] = Append(@, Call(env, clients))]
        /\ tasks' = tasks \cup Tasks(c, Len(issued[c]) + 1, clients)
        /\ pc' = [pc EXCEPT ![c] = IF Suspends(clients) THEN "chat" ELSE "active"]
        /\ lastIn' = <<c, FrameLabel(f)>>
        /\ clients' = Pruned(clients)
        /\ UNCHANGED <<open, client_id, username, outbox, user, removed, response>>

\* Variant: the chat is relayed to the other sessions only, not echoed.
ChatNoEcho(c, f) ==
    LET reg == {e \in clients : e.websocket # c}
    IN  /\ nchat < MaxChat
        /\ nchat' = nchat + 1
        /\ issued' = [issued EXCEPT ![c] = Append(@, Call(ChatEnv(f), reg))]
        /\ tasks' = tasks \cup Tasks(c, Len(issued[c]) + 1, reg)
        /\ pc' = [pc EXCEPT ![c] = IF Suspends(reg) THEN "chat" ELSE "active"]
        /\ lastIn' = <<c, FrameLabel(f)>>
        /\ clients' = clients
        /\ UNCHANGED <<open, client_id, username, outbox, user, removed, response>>

\* The message branch of the second loop: broadcast the chat envelope.
Chat(c, f) ==
    /\ nchat < MaxChat
    /\ nchat' = nchat + 1
    /\ issued' = [issued EXCEPT ![c] = Append(@, Call(ChatEnv(f), clients))]
    /\ tasks' = tasks \cup Tasks(c, Len(issued[c]) + 1, clients)
    /\ pc' = [pc EXCEPT ![c] = IF Suspends(clients) THEN "chat" ELSE "active"]
    /\ lastIn' = <<c, FrameLabel(f)>>
    /\ clients' = Pruned(clients)
    /\ UNCHANGED <<open, client_id, username, outbox, user, removed, response>>

\* Variant: the second loop handles a join like the first one does.
ActiveRecvRejoin(c, f) ==
    /\ pc[c] = "active"
    /\ open[c]
    /\ IF f.kind = "badjson" \/ TypeRaises(f) THEN Drop(c, f)
       ELSE IF IsMessage(f) /\ ~ChatFieldsRaise(f) THEN Chat(c, f)
       ELSE IF IsJoin(f) THEN Join(c, f)
       ELSE Drop(c, f)

\* One frame read by the second loop of handler (lines 52-69).
ActiveRecv(c, f) ==
    /\ pc[c] = "active"
    /\ open[c]
    /\ IF f.kind = "badjson" \/ TypeRaises(f) THEN Drop(c, f)
       ELSE IF IsMessage(f) /\ ~ChatFieldsRaise(f) THEN Chat(c, f)
       ELSE Drop(c, f)

\* broadcast() of a chat has returned: back to reading.
ChatDone(c) ==
    /\ pc[c] = "chat"
    /\ GatherDone(c)
    /\ issued' = [issued EXCEPT ![c] = Returned(@, c)]
    /\ tasks' = Forget(c)
    /\ pc' = [pc EXCEPT ![c] = "active"]
    /\ lastIn' = NoFrame
    /\ UNCHANGED <<open, clients, client_id, username, outbox, user, removed, nchat, response>>

\* The inbound iterator ends or raises ConnectionClosed: finally runs.
Terminate(c) ==
    /\ pc[c] \in {"await_join", "active"}
    /\ ~open[c]
    /\ Finally(c)
    /\ lastIn' = NoFrame
    /\ UNCHANGED <<client_id, username, outbox, nchat, response>>

\* broadcast_users() of the cleanup has returned: broadcast_system("left").
CleanUsersDone(c) ==
    /\ pc[c] = "clean_users"
    /\ GatherDone(c)
    /\ LET iss == Returned(issued[c], c)
       IN  /\ issued' = [issued EXCEPT ![c] =
                    Append(iss, Call(SystemEnv("left", user[c]), clients))]
           /\ tasks' = Forget(c) \cup Tasks(c, Len(iss) + 1, clients)
    /\ pc' = [pc EXCEPT ![c] = IF Suspends(clients) THEN "clean_system" ELSE "done"]
    /\ open' = [open EXCEPT ![c] = IF Suspends(clients) THEN @ ELSE FALSE]
    /\ lastIn' = NoFrame
    /\ clients' = Pruned(clients)
    /\ UNCHANGED <<client_id, username, outbox, user, removed, nchat, response>>

\* broadcast_system("left") has returned: the handler ends and the server
\* closes the connection.
CleanSystemDone(c) ==
    /\ pc[c] = "clean_system"
    /\ GatherDone(c)
    /\ issued' = [issued EXCEPT ![c] = Returned(@, c)]
    /\ tasks' = Forget(c)
    /\ pc' = [pc EXCEPT ![c] = "done"]
    /\ open' = [open EXCEPT ![c] = FALSE]
    /\ lastIn' = NoFrame
    /\ UNCHANGED <<clients, client_id, username, outbox, user, removed, nchat, response>>

\* process_request=health_check: the server calls health_check on the
\* opening request of a connection and, as it returns a response, sends
\* that instead of completing the websocket handshake.
HealthRequest(p) ==
    /\ response' = [path |-> p, status |-> health_check(p).status]
    /\ lastIn' = NoFrame
    /\ UNCHANGED <<pc, open, clients, client_id, username, issued, tasks,
                   outbox, user, removed, nchat>>

\* Whether call k of handler c carries a chat envelope.
IsChatCall(c, k) == issued[c][k].env.type = "message"

\* One send coroutine of a gather runs: it writes the message to an open
\* websocket, or raises ConnectionClosed on a closed one.
SendSettle(t) ==
    /\ t \in tasks
    /\ t.st = "pending"
    /\ IF open[t.to]
       THEN /\ tasks' = (tasks \ {t}) \cup {[t EXCEPT !.st = "sent"]}
            /\ outbox' = IF IsChatCall(t.by, t.seq)
                         THEN [outbox EXCEPT ![t.to][t.by] = Append(@, t.seq)]
                         ELSE outbox
       ELSE /\ tasks' = (tasks \ {t}) \cup {[t EXCEPT !.st = "failed"]}
            /\ outbox' = outbox
    /\ lastIn' = NoFrame
    /\ UNCHANGED <<pc, open, clients, client_id, username, issued, user, removed, nchat, response>>

Next ==
    \/ \E c \in Conns : Accept(c)
    \/ \E c \in Conns : Close(c)
    \/ \E c \in Conns, f \in Frames : JoinLoopRecv(c, f)
    \/ \E c \in Conns : JoinUsersDone(c)
    \/ \E c \in Conns : JoinSystemDone(c)
    \/ \E c \in Conns, f \in Frames : ActiveRecv(c, f)
    \/ \E c \in Conns : ChatDone(c)
    \/ \E c \in Conns : Terminate(c)
    \/ \E c \in Conns : CleanUsersDone(c)
    \/ \E c \in Conns : CleanSystemDone(c)
    \/ \E t \in tasks : SendSettle(t)

Spec == Init /\ [][Next]_vars

\* The handlers together with the opening requests answered by
\* health_check.  health_check reads no handler state, so the handlers are
\* given well-formed frames and one chat only: enough to put the registry
\* and the broadcasts in each of their kinds of state around a request.
WellFormedOnly ==
    /\ lastIn'[2] \in {"none", "join", "message"}
    /\ nchat' <= 1
    /\ \A c \in Conns : client_id'[c] \in {None, "u1"}

NextHealth ==
    \/ \E p \in Paths : HealthRequest(p)
    \/ \E c \in Conns : Accept(c)
    \/ \E c \in Conns : Close(c)
    \/ \E c \in Conns, f \in Frames : JoinLoopRecv(c, f) /\ WellFormedOnly
    \/ \E c \in Conns : JoinUsersDone(c)
    \/ \E c \in Conns : JoinSystemDone(c)
    \/ \E c \in Conns, f \in Frames : ActiveRecv(c, f) /\ WellFormedOnly
    \/ \E c \in Conns : ChatDone(c)
    \/ \E c \in Conns : Terminate(c)
    \/ \E c \in Conns : CleanUsersDone(c)
    \/ \E c \in Conns : CleanSystemDone(c)
    \/ \E t \in tasks : SendSettle(t)

SpecHealth == Init /\ [][NextHealth]_vars

\* ------------------------------------------------------------ vocabulary

\* The handler is suspended in `await asyncio.gather(...)`.
Awaiting == {"join_users", "join_system", "chat", "clean_users", "clean_system"}

\* The send coroutines of the broadcast handler c is awaiting.
CurTasks(c) == {t \in tasks : t.by = c /\ t.seq = Len(issued[c])}

\* Every send of the broadcast c awaits has settled: nothing is left for
\* broadcast to do but return.
Returning(c) == pc[c] \in Awaiting /\ GatherDone(c)

\* This step is handler c resuming from its gather: its broadcast returns.
BroadcastReturns(c) == pc[c] \in Awaiting /\ pc'[c] # pc[c]

\* The handler has registered (every join issues a users broadcast).
Joined(c) == Len(issued[c]) > 0

HasEntry(reg, w) == \E e \in reg : e.websocket = w

IsLeft(call) == call.env.type = "system" /\ call.env.text[1] = "left"

LeftCalls(c) == {k \in DOMAIN issued[c] : IsLeft(issued[c][k])}

ChatCalls(c) == {k \in DOMAIN issued[c] : issued[c][k].env.type = "message"}

\* ------------------------------------------------------------------- C1
\* C1: when a broadcast returns, every recipient whose send failed has no
\* entry in the registry any more, and the entries of the other recipients
\* are kept.
C1_FailedRecipientRemoved ==
    [][\A c \in Conns : BroadcastReturns(c) =>
          \A t \in tasks : t.by = c =>
              IF t.st = "failed"
              THEN ~HasEntry(clients', t.to)
              ELSE \A e \in clients : e.websocket = t.to => e \in clients']_vars

\* ------------------------------------------------------------------- C2
\* C2: when all sends of a broadcast have settled, a send was attempted on
\* every websocket that was in the registry at the time of the call, every
\* send that did not fail (it fails only on a closed websocket) has written
\* the message, and no broadcast call ever ends by raising to its caller,
\* whatever subset of the sends failed.
C2_BroadcastIsolation ==
    /\ \A c \in Conns : Returning(c) =>
          LET k == Len(issued[c]) IN
          /\ {t.to : t \in CurTasks(c)} = {r.to : r \in issued[c][k].rcpts}
          /\ \A t \in CurTasks(c) :
                /\ t.st \in {"sent", "failed"}
                /\ t.st = "failed" => ~open[t.to]
                /\ (t.st = "sent" /\ IsChatCall(c, k)) =>
                       \E i \in DOMAIN outbox[t.to][c] : outbox[t.to][c][i] = k
    /\ \A c \in Conns : \A k \in DOMAIN issued[c] :
          /\ issued[c][k].ret \in {"pending", "returned"}
          /\ issued[c][k].ret = "pending" => (k = Len(issued[c]) /\ pc[c] \in Awaiting)

\* A broadcast with one failed and one successful send, all settled.
C2_Witness ==
    \E c \in Conns : Returning(c) /\
        \E t1, t2 \in CurTasks(c) : t1.st = "failed" /\ t2.st = "sent"

\* ------------------------------------------------------------------- C3
\* C3: when all registered connections have pairwise distinct ids and the
\* handler of one of them, u, has terminated and finished its cleanup, then
\* u's registry entry is gone, the handler has issued exactly one system
\* 'left' broadcast and it carries u's display name, and just before it a
\* users broadcast whose mapping omits u and holds every session registered
\* at that time.
DistinctIds ==
    \A c, d \in Conns : (c # d /\ Joined(c) /\ Joined(d)) => client_id[c] # client_id[d]

C3_LeaveAnnounced ==
    \A c \in Conns : (pc[c] = "done" /\ Joined(c) /\ DistinctIds) =>
        /\ ~InClients(clients, client_id[c])
        /\ Cardinality(LeftCalls(c)) = 1
        /\ \A k \in LeftCalls(c) :
              /\ issued[c][k].env = SystemEnv("left", username[c])
              /\ k > 1
              /\ issued[c][k - 1].env.type = "users"
              /\ \A m \in issued[c][k - 1].env.users : m[1] # client_id[c]
              /\ \A r \in issued[c][k - 1].rcpts :
                    \E m \in issued[c][k - 1].env.users : m[1] = r.id

\* ------------------------------------------------------------------- C4
\* C4: for every connection that has joined with a non-empty id u and
\* display name n, the first broadcast of its handler is a users envelope
\* whose mapping contains u -> n.
C4_JoinSnapshotHasSelf ==
    \A c \in Conns : (Joined(c) /\ Truthy(client_id[c])) =>
        /\ issued[c][1].env.type = "users"
        /\ <<client_id[c], username[c]>> \in issued[c][1].env.users

\* Two connections have joined with the same id and different names, so one
\* join's snapshot was taken while the other's entry was or had been there.
C4_Witness ==
    \E c, d \in Conns :
        /\ c # d /\ Joined(c) /\ Joined(d)
        /\ Truthy(client_id[c]) /\ client_id[c] = client_id[d]
        /\ username[c] # username[d]
        /\ pc[c] = "join_users" /\ pc[d] \in Awaiting

\* ------------------------------------------------------------------- C5
\* C5: every handler issues at most one 'left' broadcast, each of them for a
\* registry entry it removed itself, and the entry of one connection is
\* removed at most once: at most one 'left' is announced for a connection.
C5_AtMostOneLeft ==
    /\ \A c \in Conns :
          /\ Cardinality(LeftCalls(c)) <= 1
          /\ LeftCalls(c) # {} => \E r \in removed : r.by = c
    /\ \A r1, r2 \in removed : (r1.ws = r2.ws \/ r1.by = r2.by) => r1 = r2

\* A connection's entry was removed by another handler's cleanup, which
\* announced it, and the connection's own handler has terminated since.
C5_Witness ==
    \E r \in removed :
        /\ r.by # r.ws
        /\ LeftCalls(r.by) # {}
        /\ pc[r.ws] = "done"

\* ------------------------------------------------------------------- C6
\* C6: a step in which a handler awaiting the join reads a well-formed frame
\* of type 'message' leaves the registry unchanged, issues no broadcast and
\* starts no send, and leaves the handler awaiting the join.
C6_NoPrematureJoin ==
    [][\A c \in Conns : (pc[c] = "await_join" /\ lastIn' = <<c, "message">>) =>
          /\ clients' = clients
          /\ issued' = issued
          /\ tasks' = tasks
          /\ pc'[c] = "await_join"]_vars

\* A handler awaiting the join has just read a message frame while another
\* session is registered.
C6_Witness ==
    \E c \in Conns :
        /\ lastIn = <<c, "message">>
        /\ pc[c] = "await_join"
        /\ clients # {}

\* ------------------------------------------------------------------- C7
\* C7: of two chat broadcasts of one handler, no send of the earlier one is
\* still pending once the later one has been started, and every websocket
\* that got both got the earlier one first.
C7_ChatOrder ==
    \A c \in Conns : \A k1, k2 \in ChatCalls(c) : k1 < k2 =>
        /\ \A t \in tasks : (t.by = c /\ t.seq = k1) => t.st # "pending"
        /\ \A w \in Conns : \A i, j \in DOMAIN outbox[w][c] :
              (outbox[w][c][i] = k1 /\ outbox[w][c][j] = k2) => i < j

\* Some websocket has received two chats of one connection.
C7_Witness ==
    \E c, w \in Conns : Len(outbox[w][c]) = 2 /\ c # w

\* ------------------------------------------------------------------- C8
\* C8: the registry never holds two entries with the same id, and a join
\* with an id that is already registered leaves exactly one entry for that
\* id, carrying the joining connection's display name and websocket.
C8_DuplicateIdReplaces ==
    /\ [](\A e1, e2 \in clients : e1.id = e2.id => e1 = e2)
    /\ [][\A c \in Conns :
            (pc[c] = "await_join" /\ pc'[c] = "join_users"
                /\ InClients(clients, client_id'[c])) =>
            {e \in clients' : e.id = client_id'[c]} =
                {[id |-> client_id'[c], websocket |-> c, username |-> username'[c]]}]_vars

\* The registry holds the entry of a connection that joined with the id and
\* another display name than a connection that had joined before.
C8_Witness ==
    \E c, d \in Conns : \E e \in clients :
        /\ c # d /\ Joined(c) /\ Joined(d)
        /\ client_id[c] = client_id[d] /\ username[c] # username[d]
        /\ e.id = client_id[c] /\ e.websocket = d /\ lastIn[1] = d

\* ------------------------------------------------------------------- C9
\* C9: no registry entry has an absent or empty id, and a connection whose
\* join carried an absent or empty userId has broadcast nothing and is
\* still awaiting its join (or has terminated without having joined).
C9_NoEmptyIdentity ==
    /\ \A e \in clients : Truthy(e.id)
    /\ \A c \in Conns : ~Truthy(client_id[c]) =>
          (issued[c] = <<>> /\ pc[c] \in {"idle", "await_join", "done"})

\* ------------------------------------------------------------------ C10
\* C10: no registry entry holds the websocket of a connection whose handler
\* has terminated and finished its cleanup; once all handlers have, the
\* registry is empty.
C10_TerminatedLeavesNoEntry ==
    /\ \A c \in Conns : pc[c] = "done" => ~HasEntry(clients, c)
    /\ (\A c \in Conns : pc[c] = "done") => clients = {}

\* ------------------------------------------------------------------ C11
\* C11: a step in which a handler awaiting the join reads a frame that is no
\* valid envelope (unparseable, not a JSON object, or an object without a
\* type) changes neither the registry nor the broadcasts issued, and leaves
\* the handler awaiting the join on an open connection, so that a later
\* join is still read.
InvalidEnvelope == {"badjson", "nonobject", "notype"}

C11_MalformedBeforeJoinDropped ==
    [][\A c \in Conns :
          (pc[c] = "await_join" /\ lastIn'[1] = c /\ lastIn'[2] \in InvalidEnvelope) =>
          /\ clients' = clients
          /\ issued' = issued
          /\ pc'[c] = "await_join"
          /\ open'[c]]_vars

\* ------------------------------------------------------------------ C12
\* The websockets a send of handler c's latest broadcast was started on.
StartedOn(tk, iss, c) == {t.to : t \in {u \in tk : u.by = c /\ u.seq = Len(iss[c])}}

\* C12 as stated: a step in which an active handler reads a well-formed
\* chat frame issues one chat broadcast, starts a send to the websocket of
\* every registry entry, and the handler's own websocket is among them
\* (stated for the handlers that joined with a non-empty id).
C12_ChatEchoAlways ==
    [][\A c \in Conns :
          (pc[c] = "active" /\ Truthy(client_id[c]) /\ lastIn' = <<c, "message">>) =>
          /\ Len(issued'[c]) = Len(issued[c]) + 1
          /\ issued'[c][Len(issued'[c])].env.type = "message"
          /\ StartedOn(tasks', issued', c) = {e.websocket : e \in clients}
          /\ c \in StartedOn(tasks', issued', c)]_vars

\* C12 as amended: the handler's own websocket is among them whenever the
\* registry holds an entry with that websocket when the frame is read.
C12_ChatToAllRegistered ==
    [][\A c \in Conns : (pc[c] = "active" /\ lastIn' = <<c, "message">>) =>
          /\ Len(issued'[c]) = Len(issued[c]) + 1
          /\ issued'[c][Len(issued'[c])].env.type = "message"
          /\ issued'[c][Len(issued'[c])].rcpts = Recipients(clients)
          /\ StartedOn(tasks', issued', c) = {e.websocket : e \in clients}
          /\ HasEntry(clients, c) => c \in StartedOn(tasks', issued', c)]_vars

\* A handler has just read a chat frame and started sends to its own
\* websocket and to that of another connection whose peer has gone away.
C12_Witness ==
    \E c, d \in Conns :
        /\ c # d /\ lastIn = <<c, "message">> /\ pc[c] = "chat"
        /\ {c, d} \subseteq StartedOn(tasks, issued, c)
        /\ ~open[d]

\* ------------------------------------------------------------------ C13
\* The connections that joined with id u.
JoinedWith(u) == {c \in Conns : Joined(c) /\ client_id[c] = u}

\* The calls handler c appends to its broadcasts in this step.
NewCalls(c) == {k \in DOMAIN issued'[c] : k > Len(issued[c])}

\* C13: under every interleaving of the handlers at their suspension points,
\* (a) no join or leave is lost: every registry entry is that of a joined
\* connection, an id that some connection joined with and of which no entry
\* was removed is registered, and a removed entry is not in the registry;
\* (b) a step changes the registry only by the acting handler's own insert
\* (its join) or remove (its cleanup), confined to that handler's id; and
\* (c) every snapshot a broadcast is built from (the users mapping and the
\* recipient list) is the registry as that same step leaves it, so no other
\* handler's mutation falls between the reads of one snapshot.
C13_RegistryExclusive ==
    /\ [](/\ \A e \in clients :
               /\ Joined(e.websocket)
               /\ e.id = client_id[e.websocket]
               /\ e.username = username[e.websocket]
           /\ \A c \in Conns : Joined(c) =>
                 \/ InClients(clients, client_id[c])
                 \/ \E r \in removed : r.ws \in JoinedWith(client_id[c])
           /\ \A r \in removed : ~HasEntry(clients, r.ws))
    /\ [][
          /\ \A e \in clients \ clients' :
                \E c \in Conns :
                    /\ pc[c] \in {"await_join", "active"} /\ pc'[c] # pc[c]
                    /\ e.id = client_id'[c]
          /\ \A e \in clients' \ clients :
                \E c \in Conns :
                    /\ pc[c] = "await_join" /\ pc'[c] = "join_users"
                    /\ e.websocket = c
          /\ \A c \in Conns : \A k \in NewCalls(c) :
                /\ issued'[c][k].rcpts = Recipients(clients')
                /\ issued'[c][k].env.type = "users" =>
                       issued'[c][k].env.users = UsersData(clients')
       ]_vars

\* A handler is suspended in a broadcast whose recipient list is no longer
\* the registry: another handler has joined or left in the meantime.
C13_Witness ==
    \E c \in Conns :
        /\ pc[c] \in Awaiting
        /\ issued[c][Len(issued[c])].rcpts # Recipients(clients)
        /\ removed # {}

\* ------------------------------------------------------------------ C14
\* C14: the cleanup of a handler removes only an entry that holds the
\* handler's own websocket, and the 'left' it announces carries the
\* display name the handler itself joined with.
C14_CleanupOwnEntryOnly ==
    /\ \A r \in removed : r.by = r.ws
    /\ \A c \in Conns : \A k \in LeftCalls(c) :
          issued[c][k].env = SystemEnv("left", username[c])

\* ------------------------------------------------------------------ C15
\* C15: a step in which an active handler reads a join frame leaves every
\* registry entry as it is, issues no broadcast and starts no send, and
\* leaves the handler active with the id and name it joined with.
C15_SecondJoinIgnored ==
    [][\A c \in Conns : (pc[c] = "active" /\ lastIn' = <<c, "join">>) =>
          /\ clients' = clients
          /\ issued' = issued
          /\ tasks' = tasks
          /\ client_id'[c] = client_id[c]
          /\ username'[c] = username[c]
          /\ pc'[c] = "active"]_vars

\* An active handler has just read a join frame.
C15_Witness ==
    \E c \in Conns :
        /\ lastIn = <<c, "join">>
        /\ pc[c] = "active"
        /\ HasEntry(clients, c)

\* ------------------------------------------------------------------ C16
\* The labels of the frames the second loop has nothing to do for: no valid
\* envelope, a chat lacking one of its fields, or an unrecognized type.
Unusable == InvalidEnvelope \cup {"message-", "other"}

\* C16: a step in which an active handler reads such a frame leaves the
\* registry unchanged, issues no broadcast and starts no send, and leaves
\* the handler active on an open connection, reading on.
C16_BadFrameWhileActiveDropped ==
    [][\A c \in Conns :
          (pc[c] = "active" /\ lastIn'[1] = c /\ lastIn'[2] \in Unusable) =>
          /\ clients' = clients
          /\ issued' = issued
          /\ tasks' = tasks
          /\ pc'[c] = "active"
          /\ open'[c]]_vars

\* An active handler has just read a chat frame that lacks a field.
C16_Witness ==
    \E c \in Conns :
        /\ lastIn = <<c, "message-">>
        /\ pc[c] = "active"
        /\ HasEntry(clients, c)

\* ------------------------------------------------------------------ C17
\* The sends of handler c that have not settled.
PendingOf(c) == {t \in tasks : t.by = c /\ t.st = "pending"}

\* C17: a send is pending only while its handler is suspended in the
\* broadcast that started it; the step in which a broadcast returns, the
\* step in which a handler issues a further broadcast and the step in which
\* it reads a frame all start with none of the handler's sends pending.
C17_ReturnAfterAllSettled ==
    /\ [](\A t \in tasks : t.st = "pending" =>
              (pc[t.by] \in Awaiting /\ t.seq = Len(issued[t.by])))
    /\ [][\A c \in Conns :
            (BroadcastReturns(c) \/ NewCalls(c) # {} \/ lastIn'[1] = c) =>
                PendingOf(c) = {}]_vars

\* A handler has read a frame after a broadcast to two recipients, one of
\* whose sends failed, has returned.
C17_Witness ==
    \E c \in Conns :
        /\ lastIn[1] = c /\ pc[c] = "active"
        /\ Cardinality(issued[c][Len(issued[c])].rcpts) = 2
        /\ issued[c][Len(issued[c])].ret = "returned"
        /\ \E d \in Conns : ~open[d] /\ HasEntry(clients, d)

\* ------------------------------------------------------------------ C18
UsersCalls(c) == {k \in DOMAIN issued[c] : issued[c][k].env.type = "users"}

\* C18: in every users broadcast the ids of the mapping are the ids of the
\* sessions it is sent to, and when it is issued the sends started are
\* those to the websockets of the same sessions.
C18_UsersMappingMatchesRecipients ==
    /\ [](\A c \in Conns : \A k \in UsersCalls(c) :
              {m[1] : m \in issued[c][k].env.users} =
                  {r.id : r \in issued[c][k].rcpts})
    /\ [][\A c \in Conns :
            (NewCalls(c) # {} /\ issued'[c][Len(issued'[c])].env.type = "users") =>
                StartedOn(tasks', issued', c) =
                    {r.to : r \in issued'[c][Len(issued'[c])].rcpts}]_vars

\* The users broadcast of a cleanup goes to a remaining session whose peer
\* has gone away, while that session's handler is suspended in a broadcast.
C18_Witness ==
    \E c \in Conns : \E k \in UsersCalls(c) : \E d \in Conns \ {c} :
        /\ k > 1
        /\ pc[c] = "clean_users"
        /\ \E r \in issued[c][k].rcpts : r.to = d
        /\ pc[d] \in Awaiting /\ ~open[d]

\* ------------------------------------------------------------------ C19
\* C19 as stated: every chat envelope broadcast by a handler carries the id
\* and the display name the handler joined with (stated for the handlers
\* that joined with a non-empty id).
C19_ChatCarriesRegisteredIdentity ==
    \A c \in Conns : \A k \in ChatCalls(c) : Truthy(client_id[c]) =>
        /\ issued[c][k].env.userId = client_id[c]
        /\ issued[c][k].env.username = username[c]

\* C19 as amended: the chat envelope issued when a handler reads a chat
\* frame carries the userId, username and text of that frame.
C19_ChatEchoesFrame ==
    [][\A c \in Conns : (pc[c] = "active" /\ lastIn' = <<c, "message">>) =>
          \E f \in Frames :
              /\ FrameLabel(f) = "message"
              /\ NewCalls(c) = {Len(issued[c]) + 1}
              /\ issued'[c][Len(issued'[c])].env.type = "message"
              /\ issued'[c][Len(issued'[c])].env.userId = f.userId
              /\ issued'[c][Len(issued'[c])].env.username = f.username
              /\ issued'[c][Len(issued'[c])].env.text = <<f.text>>]_vars

\* A handler that joined with a non-empty id has just broadcast a chat
\* whose frame names another id.
C19_Witness ==
    \E c \in Conns :
        /\ lastIn = <<c, "message">>
        /\ Truthy(client_id[c])
        /\ ChatCalls(c) # {}
        /\ issued[c][Len(issued[c])].env.userId # client_id[c]

\* ------------------------------------------------------------------ C20
\* C20: every opening request that health_check has answered asked for the
\* liveness path and got the success status; a request for another path is
\* left to the websocket handshake.
C20_OnlyHealthPathAnswered ==
    response # NoResponse =>
        (response.path = HealthPath /\ response.status = 200)

====
